---- MODULE Spec2Model ----
(***************************************************************************)
(* Model of scripts/gpu_embeddings_server.py: a process that reads its     *)
(* configuration from the environment, resolves a compute device, loads    *)
(* one embedding model, and then serves GET /health and POST /embed from   *)
(* a pool of request threads.                                              *)
(*                                                                         *)
(* Text that the program transforms character by character (the device     *)
(* preference, the batch size) is a sequence of one-character strings.     *)
(* Floating-point numbers are fixed-point integers with FixOne = 1.0.      *)
(***************************************************************************)
EXTENDS Integers, Sequences, FiniteSets

VARIABLES
    env,            \* the process environment (os.getenv)
    hw,             \* what the torch hardware probes answer
    phase,          \* position of the main thread in the module body / main()
    DEFAULT_MODEL,  \* line 13
    DEVICE_PREF,    \* line 17
    BATCH_SIZE,     \* line 18
    DEVICE,         \* line 31
    MODEL,          \* line 32
    DIMS,           \* line 33
    thread,         \* request threads: position in the handler and its locals
    log,            \* completed exchanges, in completion order
    issued,         \* requests accepted from the network so far
    picks,          \* calls of pick_device so far
    loads           \* SentenceTransformer constructions attempted so far

vars == <<env, hw, phase, DEFAULT_MODEL, DEVICE_PREF, BATCH_SIZE, DEVICE,
          MODEL, DIMS, thread, log, issued, picks, loads>>

globals == <<DEFAULT_MODEL, DEVICE_PREF, BATCH_SIZE, DEVICE, MODEL, DIMS>>

----------------------------------------------------------------------------
\* Bounds of the model.

\* Requests the server accepts in one behaviour.
MaxRequests == 3

\* Output dimensionality of the loaded model (768 for the default model).
EmbDim == 2

\* The fixed-point representation of 1.0.
FixOne == 100

\* The request threads of the hosting HTTP layer.
Workers == {"t1", "t2"}

\* The texts a client sends, and the input sequences built from them.
Inputs ==
    { <<>>, <<"a">>, <<"a", "b">>, <<"b", "a">>, <<"b", "a", "b">> }

----------------------------------------------------------------------------
\* Character strings.

auto == <<"a", "u", "t", "o">>
cuda == <<"c", "u", "d", "a">>
mps  == <<"m", "p", "s">>
cpu  == <<"c", "p", "u">>

UpperCase ==
    <<"A", "B", "C", "D", "E", "F", "G", "H", "I", "J", "K", "L", "M",
      "N", "O", "P", "Q", "R", "S", "T", "U", "V", "W", "X", "Y", "Z">>

LowerCase ==
    <<"a", "b", "c", "d", "e", "f", "g", "h", "i", "j", "k", "l", "m",
      "n", "o", "p", "q", "r", "s", "t", "u", "v", "w", "x", "y", "z">>

\* str.lower() on one character.
LowerChar(c) ==
    IF \E i \in 1..26 : UpperCase[i] = c
    THEN LowerCase[CHOOSE i \in 1..26 : UpperCase[i] = c]
    ELSE c

\* str.lower().
Lower(s) == [i \in 1..Len(s) |-> LowerChar(s[i])]

Digits == <<"0", "1", "2", "3", "4", "5", "6", "7", "8", "9">>

IsDigit(c) == \E i \in 1..10 : Digits[i] = c

DigitValue(c) == (CHOOSE i \in 1..10 : Digits[i] = c) - 1

\* Whether int(s) returns rather than raising ValueError.
IsInt(s) == Len(s) > 0 /\ \A i \in 1..Len(s) : IsDigit(s[i])

RECURSIVE IntOf(_)
\* int(s) for a string of decimal digits.
IntOf(s) ==
    IF s = <<>> THEN 0
    ELSE 10 * IntOf(SubSeq(s, 1, Len(s) - 1)) + DigitValue(s[Len(s)])

----------------------------------------------------------------------------
\* Configuration.

DefaultModelName == "jinaai/jina-embeddings-v2-base-code"

\* os.getenv(name, default).
GetEnv(isSet, value, default) == IF isSet THEN value ELSE default

ConfigModel == GetEnv(env.modelSet, env.model, DefaultModelName)

ConfigDevicePref == Lower(GetEnv(env.deviceSet, env.device, auto))

ConfigBatchText == GetEnv(env.batchSet, env.batch, <<"1", "6">>)

\* A mutant of pick_device that lets an available GPU override the preference.
pick_device_HardwareFirst(pref, h) ==
    IF h.cuda THEN cuda
    ELSE IF pref # auto THEN pref
    ELSE IF h.has_mps /\ h.mps THEN mps
    ELSE cpu

\* A mutant of pick_device that probes the secondary accelerator first.
pick_device_MpsFirst(pref, h) ==
    IF pref # auto THEN pref
    ELSE IF h.has_mps /\ h.mps THEN mps
    ELSE IF h.cuda THEN cuda
    ELSE cpu

pick_device(pref, h) ==
    IF pref # auto THEN pref
    ELSE IF h.cuda THEN cuda
    ELSE IF h.has_mps /\ h.mps THEN mps
    ELSE cpu

----------------------------------------------------------------------------
\* The embedding library and numpy.

NoModel == [loaded |-> FALSE, name |-> "", device |-> <<>>, dim |-> 0]

\* SentenceTransformer(name, device=device).
LoadedModel(name, device) ==
    [loaded |-> TRUE, name |-> name, device |-> device, dim |-> EmbDim]

\* Whether torch can place a model on the device.
DeviceUsable(device, h) ==
    \/ device = cpu
    \/ device = cuda /\ h.cuda
    \/ device = mps /\ h.has_mps /\ h.mps

\* The unnormalized output of the network for one text, in its first two
\* coordinates.
TokenVec(s) == IF s = "a" THEN <<6, 8>> ELSE <<12, 5>>

RawVec(s, d) == [i \in 1..d |-> IF i <= 2 THEN TokenVec(s)[i] ELSE 0]

RECURSIVE SumSq(_)
SumSq(v) == IF v = <<>> THEN 0 ELSE Head(v) * Head(v) + SumSq(Tail(v))

Isqrt(n) == CHOOSE r \in 0..n : r * r <= n /\ (r + 1) * (r + 1) > n

\* torch.nn.functional.normalize(v, p=2).
Normalize(v) ==
    LET norm == Isqrt(SumSq(v))
    IN  [i \in 1..Len(v) |-> (v[i] * FixOne) \div norm]

EncodeBatch(model, batch, normalize) ==
    [i \in 1..Len(batch) |->
        IF normalize THEN Normalize(RawVec(batch[i], model.dim))
        ELSE RawVec(batch[i], model.dim)]

RECURSIVE EncodeChunks(_, _, _, _)
\* The loop of encode over chunks of batch_size sentences.
EncodeChunks(model, sentences, normalize, batch_size) ==
    IF sentences = <<>> THEN <<>>
    ELSE LET k == IF batch_size < Len(sentences) THEN batch_size
                  ELSE Len(sentences)
         IN  EncodeBatch(model, SubSeq(sentences, 1, k), normalize)
             \o EncodeChunks(model, SubSeq(sentences, k + 1, Len(sentences)),
                             normalize, batch_size)

RECURSIVE Flatten(_)
Flatten(rows) == IF rows = <<>> THEN <<>> ELSE Head(rows) \o Flatten(Tail(rows))

NoArray == [shape |-> <<>>, data |-> <<>>]

\* Whether encode can return at all: range() rejects a zero step, and a
\* negative one produces no batches for the inputs to be read back from.
EncodeCanReturn(batch_size) == batch_size >= 1

\* SentenceTransformer.encode(sentences, normalize_embeddings=normalize,
\* batch_size=batch_size, convert_to_numpy=True): an array of shape
\* (N, dim), or the empty one-dimensional array when there is no sentence.
Encode(model, sentences, normalize, batch_size) ==
    LET rows == EncodeChunks(model, sentences, normalize, batch_size)
    IN  IF Len(rows) = 0 THEN [shape |-> <<0>>, data |-> <<>>]
        ELSE [shape |-> <<Len(rows), model.dim>>, data |-> Flatten(rows)]

\* ndarray.tolist().
Tolist(arr) ==
    IF Len(arr.shape) = 1 THEN arr.data
    ELSE [i \in 1..arr.shape[1] |->
            [j \in 1..arr.shape[2] |-> arr.data[(i - 1) * arr.shape[2] + j]]]

----------------------------------------------------------------------------
\* JSON request bodies and responses.

JNull == [t |-> "null", s |-> "", items |-> <<>>]
JStr(s) == [t |-> "str", s |-> s, items |-> <<>>]
JList(items) == [t |-> "list", s |-> "", items |-> items]

NoBody == [hasInput |-> FALSE, input |-> JNull]

\* The body {"input": [...]} a client sends for a sequence of texts.
BodyOf(input) ==
    [hasInput |-> TRUE,
     input |-> JList([i \in 1..Len(input) |-> [t |-> "str", s |-> input[i]]])]

MalformedBodies ==
    { NoBody,
      [hasInput |-> TRUE, input |-> JStr("a")],
      [hasInput |-> TRUE,
       input |-> JList(<<[t |-> "str", s |-> "a"], [t |-> "num", s |-> "1"]>>)] }

Bodies == MalformedBodies \cup { BodyOf(x) : x \in Inputs }

\* A mutant of EmbedRequest that also takes a single string for input.
Validate_AcceptsString(body) ==
    /\ body.hasInput
    /\ \/ body.input.t = "str"
       \/ /\ body.input.t = "list"
          /\ \A i \in 1..Len(body.input.items) : body.input.items[i].t = "str"

\* Validation of the body against class EmbedRequest (input: list[str]).
Validate(body) ==
    /\ body.hasInput
    /\ body.input.t = "list"
    /\ \A i \in 1..Len(body.input.items) : body.input.items[i].t = "str"

\* req.input of the validated request.
ParseInput(body) ==
    [i \in 1..Len(body.input.items) |-> body.input.items[i].s]

Response(status, keys, embeddings, device, model, dims) ==
    [status |-> status, keys |-> keys, embeddings |-> embeddings,
     device |-> device, model |-> model, dims |-> dims]

\* The validation error FastAPI answers for a body that fails Validate.
ValidationError == Response(422, {"detail"}, <<>>, <<>>, "", 0)

\* The answer of the HTTP layer to an exception that leaves a handler.
InternalServerError == Response(500, {}, <<>>, <<>>, "", 0)

\* The dictionary health() returns.
HealthResponse ==
    Response(200, {"device", "model", "dims"}, <<>>, DEVICE, DEFAULT_MODEL, DIMS)

\* A mutant of embed's return value that loses the first vector.
EmbedResponse_DropsFirst(embeddings) ==
    Response(200, {"embeddings", "device", "dims"},
             IF Len(Tolist(embeddings)) > 1 THEN Tail(Tolist(embeddings))
             ELSE Tolist(embeddings),
             DEVICE, "", DIMS)

\* The dictionary embed() returns.
EmbedResponse(embeddings) ==
    Response(200, {"embeddings", "device", "dims"}, Tolist(embeddings),
             DEVICE, "", DIMS)

Exchange(op, body, calls, raised, resp) ==
    [op |-> op, body |-> body, calls |-> calls, raised |-> raised, resp |-> resp]

Idle ==
    [pc |-> "idle", body |-> NoBody, input |-> <<>>, embeddings |-> NoArray,
     calls |-> 0]

----------------------------------------------------------------------------
\* Startup: the module body and main().

DeviceTexts ==
    { auto, <<"A", "U", "T", "O">>, <<"A", "u", "t", "o">>, cuda,
      <<"C", "U", "D", "A">>, mps, cpu, <<"C", "p", "u">> }

BatchTexts == { <<"1">>, <<"2">>, <<"x">> }

Environments ==
    [modelSet : {FALSE}, model : {""},
     deviceSet : {TRUE}, device : DeviceTexts,
     batchSet : {TRUE}, batch : BatchTexts]
    \cup
    [modelSet : {TRUE}, model : {"tiny-code-model"},
     deviceSet : {FALSE}, device : {<<>>},
     batchSet : {FALSE}, batch : {<<>>}]
    \cup
    [modelSet : {FALSE}, model : {""},
     deviceSet : {FALSE}, device : {<<>>},
     batchSet : {FALSE}, batch : {<<>>}]

Hardware ==
    { h \in [cuda : BOOLEAN, has_mps : BOOLEAN, mps : BOOLEAN] :
        h.mps => h.has_mps }

\* The environments and machines the serving behaviours start from: nothing
\* configured on a machine with both accelerators; the general-purpose
\* processor and chunks of two on a machine with none; a batch size that is
\* no number.
ServeSetups ==
    { su \in Environments \X Hardware :
        \/ /\ ~su[1].deviceSet /\ ~su[1].modelSet
           /\ su[2].cuda /\ su[2].mps
        \/ /\ su[1].deviceSet /\ su[1].device = <<"C", "p", "u">>
           /\ su[1].batch = <<"2">>
           /\ ~su[2].cuda /\ su[2].has_mps /\ ~su[2].mps
        \/ /\ su[1].deviceSet /\ su[1].device = cuda /\ su[1].batch = <<"x">>
           /\ su[2].cuda /\ su[2].mps }

InitProcess ==
    /\ phase = "boot"
    /\ DEFAULT_MODEL = ""
    /\ DEVICE_PREF = <<>>
    /\ BATCH_SIZE = 0
    /\ DEVICE = <<>>
    /\ MODEL = NoModel
    /\ DIMS = 0
    /\ thread = [w \in Workers |-> Idle]
    /\ log = <<>>
    /\ issued = 0
    /\ picks = 0
    /\ loads = 0

InitBoot ==
    /\ env \in Environments
    /\ hw \in Hardware
    /\ InitProcess

Init ==
    /\ \E su \in ServeSetups : env = su[1] /\ hw = su[2]
    /\ InitProcess

\* Lines 13-18: the configuration is read; int() of a batch size that is no
\* number ends the process.
ReadConfig ==
    /\ phase = "boot"
    /\ DEFAULT_MODEL' = ConfigModel
    /\ DEVICE_PREF' = ConfigDevicePref
    /\ IF IsInt(ConfigBatchText)
       THEN BATCH_SIZE' = IntOf(ConfigBatchText) /\ phase' = "configured"
       ELSE BATCH_SIZE' = BATCH_SIZE /\ phase' = "failed"
    /\ UNCHANGED <<env, hw, DEVICE, MODEL, DIMS, thread, log, issued, picks, loads>>

\* Line 31.
ResolveDevice ==
    /\ phase = "configured"
    /\ DEVICE' = pick_device(DEVICE_PREF, hw)
    /\ picks' = picks + 1
    /\ phase' = "resolved"
    /\ UNCHANGED <<env, hw, DEFAULT_MODEL, DEVICE_PREF, BATCH_SIZE, MODEL, DIMS,
                   thread, log, issued, loads>>

\* Lines 32-33.
LoadModel ==
    /\ phase = "resolved"
    /\ DeviceUsable(DEVICE, hw)
    /\ MODEL' = LoadedModel(DEFAULT_MODEL, DEVICE)
    /\ DIMS' = MODEL'.dim
    /\ loads' = loads + 1
    /\ phase' = "loaded"
    /\ UNCHANGED <<env, hw, DEFAULT_MODEL, DEVICE_PREF, BATCH_SIZE, DEVICE,
                   thread, log, issued, picks>>

\* Line 32 raises (no such model, no such device, no memory): the import of
\* the module ends with the exception.
LoadModelFails ==
    /\ phase = "resolved"
    /\ loads' = loads + 1
    /\ phase' = "failed"
    /\ UNCHANGED <<env, hw, DEFAULT_MODEL, DEVICE_PREF, BATCH_SIZE, DEVICE,
                   MODEL, DIMS, thread, log, issued, picks>>

\* A mutant of main that starts serving as soon as the device is resolved.
main_BeforeLoad ==
    /\ phase \in {"resolved", "loaded"}
    /\ phase' = "serving"
    /\ UNCHANGED <<env, hw, DEFAULT_MODEL, DEVICE_PREF, BATCH_SIZE, DEVICE,
                   MODEL, DIMS, thread, log, issued, picks, loads>>

\* Lines 35 and 67-77: uvicorn.run(app) once the module body has run.
main ==
    /\ phase = "loaded"
    /\ phase' = "serving"
    /\ UNCHANGED <<env, hw, DEFAULT_MODEL, DEVICE_PREF, BATCH_SIZE, DEVICE,
                   MODEL, DIMS, thread, log, issued, picks, loads>>

NextBoot ==
    \/ ReadConfig
    \/ ResolveDevice
    \/ LoadModel
    \/ LoadModelFails
    \/ main

SpecBoot == InitBoot /\ [][NextBoot]_vars

----------------------------------------------------------------------------
\* Serving: the handlers, one request thread each.

Finish(w, exchange) ==
    /\ log' = Append(log, exchange)
    /\ thread' = [thread EXCEPT ![w] = Idle]

\* GET /health is dispatched to a request thread.
HealthRequest(w) ==
    /\ phase = "serving"
    /\ issued < MaxRequests
    /\ thread[w].pc = "idle"
    /\ thread' = [thread EXCEPT ![w] = [Idle EXCEPT !.pc = "health"]]
    /\ issued' = issued + 1
    /\ UNCHANGED <<env, hw, phase, globals, log, picks, loads>>

\* Lines 42-48.
health(w) ==
    /\ thread[w].pc = "health"
    /\ Finish(w, Exchange("health", NoBody, 0, FALSE, HealthResponse))
    /\ UNCHANGED <<env, hw, phase, globals, issued, picks, loads>>

\* POST /embed with a body that fails validation: the HTTP layer answers, and
\* no handler runs.
EmbedRejected ==
    /\ phase = "serving"
    /\ issued < MaxRequests
    /\ \E body \in Bodies :
        /\ ~Validate(body)
        /\ log' = Append(log, Exchange("embed", body, 0, FALSE, ValidationError))
    /\ issued' = issued + 1
    /\ UNCHANGED <<env, hw, phase, globals, thread, picks, loads>>

\* POST /embed with a body that passes validation is dispatched to a request
\* thread (line 52).
EmbedRequest(w) ==
    /\ phase = "serving"
    /\ issued < MaxRequests
    /\ thread[w].pc = "idle"
    /\ \E body \in Bodies :
        /\ Validate(body)
        /\ thread' = [thread EXCEPT ![w] =
                        [Idle EXCEPT !.pc = "handler", !.body = body,
                                     !.input = ParseInput(body)]]
    /\ issued' = issued + 1
    /\ UNCHANGED <<env, hw, phase, globals, log, picks, loads>>

\* A mutant of the encode call that does not ask for normalization.
EncodeCall_Unnormalized(w) == Encode(MODEL, thread[w].input, FALSE, BATCH_SIZE)

\* A mutant of the encode call whose options depend on what was served
\* before: normalization is asked for only once a first exchange is done.
EncodeCall_ColdStart(w) ==
    Encode(MODEL, thread[w].input, Len(log) > 0, BATCH_SIZE)

\* A mutant of the encode call that reads the request from a place the
\* request threads share.
EncodeCall_SharedRequest(w) ==
    Encode(MODEL, thread[CHOOSE v \in Workers : thread[v].pc = "handler"].input,
           TRUE, BATCH_SIZE)

\* Lines 53-59: the call of MODEL.encode and its arguments.
EncodeCall(w) == Encode(MODEL, thread[w].input, TRUE, BATCH_SIZE)

\* Lines 53-59, encode returns.
EmbedEncode(w) ==
    /\ thread[w].pc = "handler"
    /\ EncodeCanReturn(BATCH_SIZE)
    /\ thread' = [thread EXCEPT ![w].pc = "encoded",
                                ![w].embeddings = EncodeCall(w),
                                ![w].calls = @ + 1]
    /\ UNCHANGED <<env, hw, phase, globals, log, issued, picks, loads>>

\* A mutant of the failure path that calls encode a second time before it
\* gives up.
EmbedEncodeFails_Retries(w) ==
    /\ thread[w].pc = "handler"
    /\ Finish(w, Exchange("embed", thread[w].body, thread[w].calls + 2, TRUE,
                          InternalServerError))
    /\ UNCHANGED <<env, hw, phase, globals, issued, picks, loads>>

\* Lines 53-59, encode raises: nothing in embed catches the exception.
EmbedEncodeFails(w) ==
    /\ thread[w].pc = "handler"
    /\ Finish(w, Exchange("embed", thread[w].body, thread[w].calls + 1, TRUE,
                          InternalServerError))
    /\ UNCHANGED <<env, hw, phase, globals, issued, picks, loads>>

\* A mutant of the return that rebinds the global DIMS from the array's
\* shape, taking its first axis for the second.
EmbedReturn_StoresDims(w) ==
    /\ thread[w].pc = "encoded"
    /\ Finish(w, Exchange("embed", thread[w].body, thread[w].calls, FALSE,
                          EmbedResponse(thread[w].embeddings)))
    /\ DIMS' = thread[w].embeddings.shape[1]
    /\ UNCHANGED <<env, hw, phase, DEFAULT_MODEL, DEVICE_PREF, BATCH_SIZE,
                   DEVICE, MODEL, issued, picks, loads>>

\* Lines 60-64.
EmbedReturn(w) ==
    /\ thread[w].pc = "encoded"
    /\ Finish(w, Exchange("embed", thread[w].body, thread[w].calls, FALSE,
                          EmbedResponse(thread[w].embeddings)))
    /\ UNCHANGED <<env, hw, phase, globals, issued, picks, loads>>

Serve ==
    \/ EmbedRejected
    \/ \E w \in Workers :
        \/ HealthRequest(w)
        \/ health(w)
        \/ EmbedRequest(w)
        \/ EmbedEncode(w)
        \/ EmbedEncodeFails(w)
        \/ EmbedReturn(w)

Next == NextBoot \/ Serve

Spec == Init /\ [][Next]_vars

----------------------------------------------------------------------------
\* Vocabulary of the properties.

Entries == 1..Len(log)

EmbedOK(e) == e.op = "embed" /\ e.resp.status = 200

\* A body whose input is missing or is not a sequence of strings.
IsMalformed(body) ==
    \/ ~body.hasInput
    \/ body.input.t # "list"
    \/ \E i \in 1..Len(body.input.items) : body.input.items[i].t # "str"

\* The texts of a well-formed body.
TextsOf(body) == [i \in 1..Len(body.input.items) |-> body.input.items[i].s]

MpsAvailable == hw.has_mps /\ hw.mps

\* The process-wide state is what startup made of the configuration.
StartupStateIntact ==
    phase = "serving" =>
        /\ DEFAULT_MODEL = ConfigModel
        /\ DEVICE_PREF = ConfigDevicePref
        /\ BATCH_SIZE = IntOf(ConfigBatchText)
        /\ DEVICE = pick_device(ConfigDevicePref, hw)
        /\ MODEL = LoadedModel(ConfigModel, DEVICE)
        /\ DIMS = EmbDim

\* How far the squared norm of a vector may be from 1.0: each coordinate is
\* truncated to a multiple of 1/FixOne.
NormTolerance == 2 * FixOne * EmbDim

Abs(n) == IF n < 0 THEN -n ELSE n

----------------------------------------------------------------------------
\* Device resolution (checked under SpecBoot, over every environment and
\* every machine).

\* C2 as stated: an explicit preference, that is a configured string other
\* than the sentinel 'auto', is the resolved device character for character
\* as configured, whatever the hardware probes answer.
C2_PreferenceVerbatim ==
    (picks > 0 /\ env.deviceSet /\ env.device # auto) => DEVICE = env.device

\* C2, amended: a configured preference whose lowercase form is not 'auto'
\* resolves to the lowercase form of the configured string, whatever the
\* hardware probes answer.
C2_PreferenceLowercased ==
    (picks > 0 /\ env.deviceSet /\ Lower(env.device) # auto)
        => DEVICE = Lower(env.device)

\* An upper-case preference for a GPU was resolved on a machine without one.
C2_Witness ==
    /\ picks > 0
    /\ env.deviceSet
    /\ env.device = <<"C", "U", "D", "A">>
    /\ ~hw.cuda
    /\ MpsAvailable
    /\ DEVICE = cuda

\* C3: with preference 'auto' the resolved device is the first available of
\* 'cuda', 'mps', 'cpu' in that order; it is 'cpu' when there is no
\* accelerator, and it is never anything outside these three.
C3_AutoPriority ==
    (picks > 0 /\ DEVICE_PREF = auto) =>
        /\ DEVICE \in {cuda, mps, cpu}
        /\ DEVICE = cuda <=> hw.cuda
        /\ DEVICE = mps <=> (~hw.cuda /\ MpsAvailable)
        /\ DEVICE = cpu <=> (~hw.cuda /\ ~MpsAvailable)

\* Auto-detection ran on a machine with both accelerators and took the GPU.
C3_Witness ==
    /\ picks > 0
    /\ DEVICE_PREF = auto
    /\ hw.cuda
    /\ MpsAvailable
    /\ DEVICE = cuda

----------------------------------------------------------------------------
\* The /embed and /health contracts (checked under Spec).

\* The vector /embed returns for one text sent alone.
VectorAlone(s) == Tolist(Encode(MODEL, <<s>>, TRUE, BATCH_SIZE))[1]

\* C1: a well-formed /embed request of N texts whose encoding does not fail
\* is answered 200 with exactly N vectors, the j-th being the vector of the
\* j-th text, each as long as the dims /health reports; no text gives no
\* vector and no error.
C1_OneVectorPerText ==
    \A i \in Entries :
        (log[i].op = "embed" /\ ~IsMalformed(log[i].body) /\ ~log[i].raised) =>
            /\ log[i].resp.status = 200
            /\ "embeddings" \in log[i].resp.keys
            /\ Len(log[i].resp.embeddings) = Len(TextsOf(log[i].body))
            /\ \A j \in 1..Len(log[i].resp.embeddings) :
                /\ Len(log[i].resp.embeddings[j]) = HealthResponse.dims
                /\ log[i].resp.embeddings[j] = VectorAlone(TextsOf(log[i].body)[j])

\* An empty input and an input of two different texts were both answered.
C1_Witness ==
    /\ \E i \in Entries :
        /\ EmbedOK(log[i])
        /\ TextsOf(log[i].body) = <<>>
        /\ log[i].resp.embeddings = <<>>
    /\ \E i \in Entries :
        /\ EmbedOK(log[i])
        /\ TextsOf(log[i].body) = <<"b", "a">>
        /\ Len(log[i].resp.embeddings) = 2
        /\ log[i].resp.embeddings[1] # log[i].resp.embeddings[2]

\* C4: a malformed /embed body is answered with a 4xx status and no
\* embeddings, encode is never called for it (no handler ever runs on it),
\* and the startup state stays as it was.
C4_MalformedRejected ==
    /\ \A i \in Entries :
        (log[i].op = "embed" /\ IsMalformed(log[i].body)) =>
            /\ log[i].resp.status \in 400..499
            /\ log[i].calls = 0
            /\ log[i].resp.embeddings = <<>>
            /\ "embeddings" \notin log[i].resp.keys
    /\ \A w \in Workers :
        thread[w].pc \in {"handler", "encoded"} => ~IsMalformed(thread[w].body)
    /\ StartupStateIntact

\* A body whose input is a single string was rejected.
C4_Witness ==
    \E i \in Entries :
        /\ log[i].op = "embed"
        /\ log[i].body.hasInput
        /\ log[i].body.input.t = "str"
        /\ log[i].resp.status = 422

\* C5: when encode fails the request is answered with a 5xx status and no
\* embeddings, encode has been called exactly once for it, the startup state
\* stays as it was, and the requests answered afterwards are served as usual.
C5_EncodeFailure ==
    /\ \A i \in Entries :
        log[i].raised =>
            /\ log[i].resp.status \in 500..599
            /\ log[i].resp.embeddings = <<>>
            /\ "embeddings" \notin log[i].resp.keys
            /\ log[i].calls = 1
            /\ \A j \in Entries :
                (j > i /\ ~log[j].raised) =>
                    /\ log[j].op = "health" => log[j].resp = HealthResponse
                    /\ (log[j].op = "embed" /\ ~IsMalformed(log[j].body)) =>
                        /\ log[j].resp.status = 200
                        /\ Len(log[j].resp.embeddings) = Len(TextsOf(log[j].body))
    /\ StartupStateIntact

\* An encode failure was answered, and the same input succeeded afterwards.
C5_Witness ==
    \E i, j \in Entries :
        /\ i < j
        /\ log[i].raised
        /\ log[i].resp.status = 500
        /\ EmbedOK(log[j])
        /\ log[j].body = log[i].body
        /\ Len(log[j].resp.embeddings) > 0

\* C6: every /health response carries the same (device, model, dims), and
\* every successful /embed response the device and dims /health reports.
C6_StartupStateImmutable ==
    \A i \in Entries :
        log[i].op = "health" =>
            /\ \A j \in Entries :
                log[j].op = "health" =>
                    /\ log[j].resp.device = log[i].resp.device
                    /\ log[j].resp.model = log[i].resp.model
                    /\ log[j].resp.dims = log[i].resp.dims
            /\ \A j \in Entries :
                EmbedOK(log[j]) =>
                    /\ log[j].resp.device = log[i].resp.device
                    /\ log[j].resp.dims = log[i].resp.dims

\* /health was answered before and after a successful /embed of one text.
C6_Witness ==
    /\ Len(log) = 3
    /\ log[1].op = "health"
    /\ EmbedOK(log[2])
    /\ Len(log[2].resp.embeddings) = 1
    /\ log[3].op = "health"
    /\ log[3].resp = log[1].resp

\* C7: two successful /embed calls with the same input return the same
\* vectors, whatever was served before or between them.
C7_Idempotent ==
    \A i, j \in Entries :
        (EmbedOK(log[i]) /\ EmbedOK(log[j]) /\ log[i].body = log[j].body)
            => log[i].resp.embeddings = log[j].resp.embeddings

\* The same two texts were embedded twice with another input in between.
C7_Witness ==
    /\ Len(log) = 3
    /\ EmbedOK(log[1])
    /\ EmbedOK(log[2])
    /\ EmbedOK(log[3])
    /\ TextsOf(log[1].body) = <<"a", "b">>
    /\ log[2].body # log[1].body
    /\ log[3].body = log[1].body
    /\ log[3].resp.embeddings = log[1].resp.embeddings
    /\ log[2].resp.embeddings # log[1].resp.embeddings

\* C8: every vector /embed returns has Euclidean norm 1 within the
\* tolerance of the number representation.
C8_UnitNorm ==
    \A i \in Entries :
        EmbedOK(log[i]) =>
            \A j \in 1..Len(log[i].resp.embeddings) :
                Abs(SumSq(log[i].resp.embeddings[j]) - FixOne * FixOne)
                    <= NormTolerance

\* Three texts were embedded in chunks, among them one whose raw vector is
\* not of unit length.
C8_Witness ==
    \E i \in Entries :
        /\ EmbedOK(log[i])
        /\ Len(log[i].resp.embeddings) = 3
        /\ BATCH_SIZE = 2
        /\ \E j \in 1..3 :
            Abs(SumSq(RawVec(TextsOf(log[i].body)[j], EmbDim)) - FixOne * FixOne)
                > NormTolerance

----------------------------------------------------------------------------
\* Concurrency and startup order (checked under Spec).

\* The responses a request can receive when it is the only one served.
ResponsesAlone(op, body) ==
    IF op = "health" THEN {HealthResponse}
    ELSE IF IsMalformed(body) THEN {ValidationError}
    ELSE {InternalServerError,
          EmbedResponse(Encode(MODEL, TextsOf(body), TRUE, BATCH_SIZE))}

\* Every answered request got a response it could have got alone, with as
\* many vectors as it sent texts.
AnsweredAsAlone ==
    \A i \in Entries :
        /\ log[i].resp \in ResponsesAlone(log[i].op, log[i].body)
        /\ EmbedOK(log[i]) =>
            Len(log[i].resp.embeddings) = Len(TextsOf(log[i].body))

\* C9: under every interleaving of the request threads, no step of a handler
\* writes the process-wide state, and every response is one the request
\* could have received alone: its vectors are those of its own input, and
\* as many as its input has texts.
C9_RequestsIsolated ==
    /\ []AnsweredAsAlone
    /\ [][phase = "serving" => UNCHANGED globals]_vars

\* One request was answered while two others, with different inputs, were
\* in their handlers, one of them past its encode call.
C9_Witness ==
    /\ \E i \in Entries : EmbedOK(log[i])
    /\ thread["t1"].pc = "handler"
    /\ thread["t2"].pc = "encoded"
    /\ thread["t1"].input # thread["t2"].input
    /\ Len(thread["t1"].input) = Len(thread["t2"].input)

\* The order of startup, as far as one state shows it.
StartupInOrder ==
    /\ picks <= 1
    /\ loads <= 1
    /\ loads = 1 => picks = 1
    /\ MODEL.loaded => loads = 1
    /\ phase = "serving" => (picks = 1 /\ loads = 1 /\ MODEL.loaded)
    /\ (issued > 0 \/ log # <<>> \/ \E w \in Workers : thread[w].pc # "idle")
        => (phase = "serving" /\ MODEL.loaded)
    /\ phase = "failed" => (issued = 0 /\ log = <<>> /\ ~MODEL.loaded)

\* C10: the device is resolved once and the model loaded once, in that
\* order, before any request is accepted; no request is served without a
\* loaded model; a failed load is never retried and leaves a process that
\* stays failed and serves nothing.
C10_StartupOrder ==
    /\ []StartupInOrder
    /\ [][phase = "failed" => phase' = "failed"]_vars
    /\ [][loads' # loads => (phase = "resolved" /\ picks = 1)]_vars

\* A request was answered by a process that resolved and loaded once.
C10_Witness ==
    /\ phase = "serving"
    /\ picks = 1
    /\ loads = 1
    /\ Len(log) > 0
    /\ \A w \in Workers : thread[w].pc = "idle"

====
